---- MODULE Spec2Model ----
(***************************************************************************)
(* Model of src/src/Sources/main.cpp: the asynchronous WebSocket echo      *)
(* server (listener accept loop, per-connection session, io_context worker *)
(* threads).                                                               *)
(*                                                                         *)
(* The transport and protocol library (Boost.Asio / Boost.Beast) is the    *)
(* environment: it finishes an outstanding operation with an outcome and   *)
(* queues the bound completion handler on the io_context.  A thread inside *)
(* ioc.run() takes the oldest queued handler and executes it.              *)
(***************************************************************************)
EXTENDS Integers, Sequences, FiniteSets, TLC

VARIABLES
    argc,       \* main: number of command line words
    arg,        \* main: argv[3], a sequence of characters
    pc,         \* main: position of the main thread
    threads,    \* main: the local `threads` (line 190)
    i,          \* main: the loop variable of the spawn loop (line 201)
    v,          \* main: number of std::thread objects in the vector v
    exit,       \* main: what main returned ("EXIT_FAILURE"), "none" before
    acceptor,   \* listener::_acceptor: "closed", "open", "bound", "listening"
    attempted,  \* listener::listener: the setup steps attempted, in order,
                \* each with the error code it gave
    laccept,    \* listener: its accept operation [phase, ec]
    session,    \* session objects, by slot: a record per slot
    queue,      \* io_context: completion handlers ready to run, oldest first
    running,    \* io_context: the handler each thread is in the middle of
    last,       \* the completion whose handler the step just taken executed
    log         \* std::cerr: the lines the step just taken wrote with fail()

vars == <<argc, arg, pc, threads, i, v, exit, acceptor, attempted, laccept,
          session, queue, running, last, log>>

\* std::cerr is only ever written: nothing the program does depends on what
\* it holds, so the model keeps the lines of the latest step alone, and with
\* them the completion that step handled (none for a step that runs no
\* handler).

mainVars == <<argc, arg, pc, threads, i, v, exit>>
listenerVars == <<acceptor, attempted>>

----------------------------------------------------------------------------
(* Bounds of the model.                                                    *)

\* session slots: at most this many session objects are alive at once
MaxSessions == 2

Slots == 1..MaxSessions

\* The words given as argv[3].
Args == { <<"0">>, <<"-", "1">>, <<"x">>, <<"1">>, <<"2">>, <<" ", "+", "3">>,
          <<"1", "2">>, <<"2", "x">> }

\* The words given as argv[3] when the event loop itself is explored.
LoopArgs == { <<"2">> }

\* The messages a client sends (bytes, and text or binary): a text message
\* and an empty binary one.
Messages == { [data |-> <<1>>, text |-> TRUE], [data |-> <<>>, text |-> FALSE] }

\* The bytes a failed read leaves behind in the buffer: the part of a message
\* that had arrived before the failure.
Partials == { <<1>> }

----------------------------------------------------------------------------
(* std::atoi and std::max, as main uses them (line 190).                   *)

IsDigit(c) == c \in {"0", "1", "2", "3", "4", "5", "6", "7", "8", "9"}

DigitVal(c) ==
    CASE c = "0" -> 0 [] c = "1" -> 1 [] c = "2" -> 2 [] c = "3" -> 3
      [] c = "4" -> 4 [] c = "5" -> 5 [] c = "6" -> 6 [] c = "7" -> 7
      [] c = "8" -> 8 [] c = "9" -> 9

RECURSIVE SkipSpace(_)
SkipSpace(str) ==
    IF str # <<>> /\ Head(str) = " " THEN SkipSpace(Tail(str)) ELSE str

RECURSIVE Digits(_, _)
Digits(str, acc) ==
    IF str # <<>> /\ IsDigit(Head(str))
    THEN Digits(Tail(str), 10 * acc + DigitVal(Head(str)))
    ELSE acc

\* std::atoi: skip white space, take an optional sign, then the leading
\* digits; 0 when there are none.
atoi(str) ==
    LET s == SkipSpace(str)
    IN  IF s = <<>> THEN 0
        ELSE IF Head(s) = "-" THEN 0 - Digits(Tail(s), 0)
        ELSE IF Head(s) = "+" THEN Digits(Tail(s), 0)
        ELSE Digits(s, 0)

max(a, b) == IF a < b THEN b ELSE a

\* line 190: auto const threads = std::max<int>(1, std::atoi(argv[3]));
ThreadCount(str) == max(1, atoi(str))

RECURSIVE SetMax(_)
SetMax(S) ==
    IF S = {} THEN 0
    ELSE LET x == CHOOSE y \in S : TRUE IN max(x, SetMax(S \ {x}))

\* Worker 0 is the main thread; workers 1, 2, ... are the threads of v.
Workers == 0..(SetMax({ThreadCount(a) : a \in Args}) - 1)

\* What a queue entry names: the listener's handler
\* (listener::on_accept bound to the listener), the handler of the session
\* in slot s, or nothing.
Idle == [who |-> "idle", slot |-> 0]
LCb == [who |-> "listener", slot |-> 0]
SCb(s) == [who |-> "session", slot |-> s]

\* A thread is inside ioc.run().
Active(w) == IF w = 0 THEN pc = "run" ELSE w <= v

----------------------------------------------------------------------------
(* fail (lines 37-39): one line on std::cerr, labelled with `what`.         *)

\* fail as it would be without the label: the error's message alone
fail_unlabelled(l, ec, what) == Append(l, [what |-> "", ec |-> ec])

fail(l, ec, what) == Append(l, [what |-> what, ec |-> ec])

----------------------------------------------------------------------------
(* session (lines 42-111).  A slot holds one session object:                *)
(*   refs      owners of the object (std::shared_ptr use count); 0 = no     *)
(*             object in this slot                                          *)
(*   op/phase  the asynchronous operation of _ws and where it stands:       *)
(*             "pending" (in flight), "ready" (finished, handler queued)    *)
(*   ec        the error code the operation finished with                   *)
(*   buffer    _buffer, the readable bytes                                  *)
(*   got_text  _ws.got_text(); text: the write type set by _ws.text(..)     *)
(*   hs        the handshakes issued on _ws so far                          *)
(*   upgraded  a handshake of _ws has finished without error                *)
(*   rd        what the latest finished read delivered: a message, or NoMsg *)
(*   wr        the bytes and type the write in progress was given, or NoMsg *)
(*   owed      the messages delivered to the session for which it has not   *)
(*             yet issued the echo, oldest first                            *)
(*   stray     the write in progress is not the echo of the oldest message  *)
(*             the session owed when it issued the write                    *)

NoMsg == [data |-> <<>>, text |-> "none"]

NoSession ==
    [refs |-> 0, op |-> "none", phase |-> "idle", ec |-> "ok", buffer |-> <<>>,
     got_text |-> TRUE, text |-> TRUE, hs |-> 0, upgraded |-> FALSE,
     rd |-> NoMsg, wr |-> NoMsg, owed |-> <<>>, stray |-> FALSE]

\* line 48 and line 170: std::make_shared<session>(std::move(socket))
make_session == [NoSession EXCEPT !.refs = 1]

\* An operation started with a handler bound to `this` instead of
\* shared_from_this(): the handler does not own the session.
Issue_binds_this(r, o) ==
    [r EXCEPT !.op = o, !.phase = "pending", !.ec = "ok",
              !.wr = NoMsg, !.stray = FALSE]

\* An operation is started; its handler holds shared_from_this().
Issue(r, o) ==
    [r EXCEPT !.op = o, !.phase = "pending", !.ec = "ok", !.refs = @ + 1,
              !.wr = NoMsg, !.stray = FALSE]

\* _ws.async_accept(...), lines 64-65
async_accept(r) == [Issue(r, "handshake") EXCEPT !.hs = @ + 1]

\* _ws.async_read(_buffer, ...), lines 78-79
async_read(r) == Issue(r, "read")

\* _ws.async_write(_buffer.data(), ...), lines 94-96
async_write(r) ==
    LET w == [data |-> r.buffer, text |-> r.text]
        echo == r.owed # <<>> /\ Head(r.owed) = w
    IN  [Issue(r, "write") EXCEPT !.wr = w,
                                  !.owed = IF echo THEN Tail(@) ELSE @,
                                  !.stray = ~echo]

\* _buffer.consume(n): drop the first n readable bytes
consume(buf, n) ==
    IF n >= Len(buf) THEN <<>> ELSE SubSeq(buf, n + 1, Len(buf))

\* session::run, lines 51-66
session_run(r) == async_accept(r)

\* session::do_read, lines 76-80
do_read(r) == async_read(r)

\* session::on_accept as it would be without the `return` of line 70
session_on_accept_falls_through(r, l) ==
    [s |-> do_read(r), log |-> IF r.ec # "ok" THEN fail(l, r.ec, "accept") ELSE l]

\* session::on_accept, lines 68-74
session_on_accept(r, l) ==
    IF r.ec # "ok"
    THEN [s |-> r, log |-> fail(l, r.ec, "accept")]
    ELSE [s |-> do_read(r), log |-> l]

\* session::on_read as it would be without line 93, _ws.text(_ws.got_text())
session_on_read_keeps_type(r, l) ==
    IF r.ec = "closed"
    THEN [s |-> r, log |-> l]
    ELSE [s |-> async_write(r),
          log |-> IF r.ec # "ok" THEN fail(l, r.ec, "read") ELSE l]

\* session::on_read as it would be without the test of lines 86-87
session_on_read_reports_close(r, l) ==
    [s |-> async_write([r EXCEPT !.text = r.got_text]),
     log |-> IF r.ec # "ok" THEN fail(l, r.ec, "read") ELSE l]

\* session::on_read as it would be were it to call do_read() after line 96,
\* without waiting for the write to finish
session_on_read_reads_ahead(r, l) ==
    IF r.ec = "closed"
    THEN [s |-> r, log |-> l]
    ELSE [s |-> do_read(async_write([r EXCEPT !.text = r.got_text])),
          log |-> IF r.ec # "ok" THEN fail(l, r.ec, "read") ELSE l]

\* session::on_read, lines 82-97
session_on_read(r, l) ==
    IF r.ec = "closed"
    THEN [s |-> r, log |-> l]
    ELSE LET l2 == IF r.ec # "ok" THEN fail(l, r.ec, "read") ELSE l
             r2 == [r EXCEPT !.text = r.got_text]
         IN  [s |-> async_write(r2), log |-> l2]

\* session::on_write as it would be were it to try the write again after a
\* failure
session_on_write_retries(r, l) ==
    IF r.ec # "ok"
    THEN [s |-> async_write(r), log |-> fail(l, r.ec, "write")]
    ELSE [s |-> do_read([r EXCEPT !.buffer = consume(@, Len(@))]), log |-> l]

\* session::on_write as it would be without line 106, _buffer.consume(..)
session_on_write_keeps_buffer(r, l) ==
    IF r.ec # "ok"
    THEN [s |-> r, log |-> fail(l, r.ec, "write")]
    ELSE [s |-> do_read(r), log |-> l]

\* session::on_write, lines 99-110
session_on_write(r, l) ==
    IF r.ec # "ok"
    THEN [s |-> r, log |-> fail(l, r.ec, "write")]
    ELSE [s |-> do_read([r EXCEPT !.buffer = consume(@, Len(@))]), log |-> l]

\* One owner lets go of the session; the last one destroys it.
Release(r) == IF r.refs <= 1 THEN NoSession ELSE [r EXCEPT !.refs = @ - 1]

\* The handler bound to the finished operation of r.
Handler(r, l) ==
    CASE r.op = "handshake" -> session_on_accept(r, l)
      [] r.op = "read"      -> session_on_read(r, l)
      [] r.op = "write"     -> session_on_write(r, l)

----------------------------------------------------------------------------
(* listener (lines 116-176).                                                *)

SetupSteps == <<"open", "set_option", "bind", "listen">>

\* What the system may answer: the set of the steps that fail when they are
\* attempted.
SetupOutcomes == SUBSET {"open", "set_option", "bind", "listen"}

\* The acceptor after a step that succeeded.
AfterStep(step, a) ==
    CASE step = "open" -> "open"
      [] step = "set_option" -> a
      [] step = "bind" -> "bound"
      [] step = "listen" -> "listening"

\* The constructor as it would be without the `return` after each fail(..):
\* every step is attempted.
RECURSIVE listener_setup_goes_on(_, _, _)
listener_setup_goes_on(k, bad, c) ==
    IF k > Len(SetupSteps) THEN c
    ELSE LET step == SetupSteps[k]
             ec == IF step \in bad THEN "err" ELSE "ok"
             c1 == [c EXCEPT !.attempted = Append(@, [step |-> step, ec |-> ec])]
         IN  IF ec # "ok"
             THEN listener_setup_goes_on(k + 1, bad,
                      [c1 EXCEPT !.log = fail(@, ec, step)])
             ELSE listener_setup_goes_on(k + 1, bad,
                      [c1 EXCEPT !.acceptor = AfterStep(step, @)])

listener_ctor_goes_on(bad, l) ==
    listener_setup_goes_on(1, bad,
        [acceptor |-> "closed", attempted |-> <<>>, log |-> l])

\* The body of listener::listener from its k-th step on (lines 125-151):
\* the step is attempted; if it fails, fail(ec, step) and return.
RECURSIVE listener_setup(_, _, _)
listener_setup(k, bad, c) ==
    IF k > Len(SetupSteps) THEN c
    ELSE LET step == SetupSteps[k]
             ec == IF step \in bad THEN "err" ELSE "ok"
             c1 == [c EXCEPT !.attempted = Append(@, [step |-> step, ec |-> ec])]
         IN  IF ec # "ok"
             THEN [c1 EXCEPT !.log = fail(@, ec, step)]
             ELSE listener_setup(k + 1, bad,
                      [c1 EXCEPT !.acceptor = AfterStep(step, @)])

\* listener::listener, lines 121-152, when the steps of `bad` fail
listener_ctor(bad, l) ==
    listener_setup(1, bad, [acceptor |-> "closed", attempted |-> <<>>, log |-> l])

\* listener::do_accept, lines 158-163
do_accept == [phase |-> "pending", ec |-> "ok"]

FreeSlots == {s \in Slots : session[s].refs = 0}
NewSlot == CHOOSE s \in FreeSlots : \A t \in FreeSlots : s <= t

\* listener::on_accept as it would be with a `return` after line 167
listener_on_accept_gives_up(ec, ss, l) ==
    IF ec # "ok"
    THEN [session |-> ss, log |-> fail(l, ec, "accept"),
          laccept |-> [phase |-> "idle", ec |-> "ok"]]
    ELSE [session |-> [ss EXCEPT ![NewSlot] = Release(session_run(make_session))],
          log |-> l, laccept |-> do_accept]

\* listener::on_accept, lines 165-175: the sessions and the log it leaves
listener_on_accept(ec, ss, l) ==
    IF ec # "ok"
    THEN [session |-> ss, log |-> fail(l, ec, "accept"), laccept |-> do_accept]
    ELSE [session |-> [ss EXCEPT ![NewSlot] = Release(session_run(make_session))],
          log |-> l, laccept |-> do_accept]

----------------------------------------------------------------------------
(* The initial state: the process has been started, main has not run.       *)

NoCompletion == [cb |-> Idle, op |-> "none", ec |-> "ok"]

InitWith(A) ==
    /\ \/ argc = 4 /\ arg \in A
       \/ argc = 3 /\ arg = <<>>
    /\ pc = "start"
    /\ threads = 0
    /\ i = 0
    /\ v = 0
    /\ exit = "none"
    /\ acceptor = "closed"
    /\ attempted = <<>>
    /\ laccept = [phase |-> "idle", ec |-> "ok"]
    /\ session = [s \in Slots |-> NoSession]
    /\ queue = <<>>
    /\ running = [w \in Workers |-> Idle]
    /\ last = NoCompletion
    /\ log = <<>>

Init == InitWith(LoopArgs)

InitMain == InitWith(Args)

\* a step that executes no completion handler and writes nothing
Quiet == last' = NoCompletion /\ log' = <<>>

----------------------------------------------------------------------------
(* main (lines 180-206), one action per statement group.                    *)

\* lines 182-187: wrong number of arguments, usage text, EXIT_FAILURE
main_usage ==
    /\ pc = "start"
    /\ argc # 4
    /\ pc' = "done"
    /\ exit' = "EXIT_FAILURE"
    /\ Quiet
    /\ UNCHANGED <<running, argc, arg, threads, i, v, listenerVars, laccept, session, queue>>

\* lines 188-193: the arguments are read; threads = max(1, atoi(argv[3]))
main_args ==
    /\ pc = "start"
    /\ argc = 4
    /\ threads' = ThreadCount(arg)
    /\ pc' = "listener"
    /\ Quiet
    /\ UNCHANGED <<running, argc, arg, i, v, exit, listenerVars, laccept, session, queue>>

\* line 196, first half: std::make_shared<listener>(ioc, endpoint)
main_make_listener ==
    /\ pc = "listener"
    /\ \E bad \in SetupOutcomes :
          LET c == listener_ctor(bad, <<>>)
          IN  /\ acceptor' = c.acceptor
              /\ attempted' = c.attempted
              /\ log' = c.log
    /\ pc' = "listener_run"
    /\ last' = NoCompletion
    /\ UNCHANGED <<running, argc, arg, threads, i, v, exit, laccept, session, queue>>

\* line 196, second half, and line 155: ->run(), which is do_accept()
listener_run ==
    /\ pc = "listener_run"
    /\ laccept' = do_accept
    /\ pc' = "reserve"
    /\ Quiet
    /\ UNCHANGED <<running, argc, arg, threads, i, v, exit, listenerVars, session, queue>>

\* lines 199-201 as they would be with the loop starting at i = threads
main_reserve_one_more ==
    /\ pc = "reserve"
    /\ i' = threads
    /\ v' = 0
    /\ pc' = "spawn"
    /\ Quiet
    /\ UNCHANGED <<running, argc, arg, threads, exit, listenerVars, laccept, session, queue>>

\* lines 199-201: the empty vector v and the loop variable i = threads - 1
main_reserve ==
    /\ pc = "reserve"
    /\ i' = threads - 1
    /\ v' = 0
    /\ pc' = "spawn"
    /\ Quiet
    /\ UNCHANGED <<running, argc, arg, threads, exit, listenerVars, laccept, session, queue>>

\* lines 201-202: one turn of the loop, a new thread that calls ioc.run()
main_spawn ==
    /\ pc = "spawn"
    /\ i > 0
    /\ v' = v + 1
    /\ i' = i - 1
    /\ Quiet
    /\ UNCHANGED <<running, argc, arg, pc, threads, exit, listenerVars, laccept, session,
                   queue>>

\* line 203: the loop is over, the main thread calls ioc.run().  ioc.run()
\* returns only when the io_context is out of work, and the listener always
\* has an accept outstanding, so line 205 is never reached.
main_run ==
    /\ pc = "spawn"
    /\ ~(i > 0)
    /\ pc' = "run"
    /\ Quiet
    /\ UNCHANGED <<running, argc, arg, threads, i, v, exit, listenerVars, laccept, session,
                   queue>>

MainNext ==
    \/ main_usage
    \/ main_args
    \/ main_make_listener
    \/ listener_run
    \/ main_reserve
    \/ main_spawn
    \/ main_run

----------------------------------------------------------------------------
(* The environment: an outstanding operation finishes and its handler is    *)
(* queued on the io_context.                                                *)

\* The accept finishes: with a connection when the acceptor listens (and a
\* slot is left for the session), with an error otherwise.
accept_completes ==
    /\ laccept.phase = "pending"
    /\ \E e \in {"ok", "err"} :
          /\ e = "ok" => acceptor = "listening" /\ FreeSlots # {}
          /\ laccept' = [phase |-> "ready", ec |-> e]
    /\ queue' = Append(queue, LCb)
    /\ Quiet
    /\ UNCHANGED <<running, mainVars, listenerVars, session>>

Finish(s, r) ==
    /\ session' = [session EXCEPT ![s] = [r EXCEPT !.phase = "ready"]]
    /\ queue' = Append(queue, SCb(s))
    /\ Quiet
    /\ UNCHANGED <<running, mainVars, listenerVars, laccept>>

Pending(s, o) == session[s].op = o /\ session[s].phase = "pending"

handshake_completes(s) ==
    /\ Pending(s, "handshake")
    /\ \E e \in {"ok", "err"} :
          Finish(s, [session[s] EXCEPT !.ec = e, !.upgraded = (e = "ok")])

\* A whole message arrives: its bytes are appended to the buffer.
read_completes_ok(s) ==
    /\ Pending(s, "read")
    /\ \E m \in Messages :
          Finish(s, [session[s] EXCEPT !.ec = "ok",
                                       !.buffer = @ \o m.data,
                                       !.got_text = m.text,
                                       !.rd = m,
                                       !.owed = Append(@, m)])

\* The peer closed the WebSocket connection.
read_completes_closed(s) ==
    /\ Pending(s, "read")
    /\ Finish(s, [session[s] EXCEPT !.ec = "closed", !.rd = NoMsg])

\* The read fails; part of a message may have reached the buffer.
read_completes_err(s) ==
    /\ Pending(s, "read")
    /\ \E part \in Partials :
          Finish(s, [session[s] EXCEPT !.ec = "err",
                                       !.buffer = @ \o part,
                                       !.rd = NoMsg])

write_completes(s) ==
    /\ Pending(s, "write")
    /\ \E e \in {"ok", "err"} : Finish(s, [session[s] EXCEPT !.ec = e])

EnvNext ==
    \/ accept_completes
    \/ \E s \in Slots : handshake_completes(s)
    \/ \E s \in Slots : read_completes_ok(s)
    \/ \E s \in Slots : read_completes_closed(s)
    \/ \E s \in Slots : read_completes_err(s)
    \/ \E s \in Slots : write_completes(s)

----------------------------------------------------------------------------
(* The worker threads: ioc.run() (lines 202-203).  A thread inside          *)
(* ioc.run() takes a ready handler off the io_context and executes it to    *)
(* its end.                                                                 *)

\* a thread that takes the newest ready handler instead
NewestReady(q) == Len(q)

\* the position in the queue of the handler a thread takes: the oldest
NextReady(q) == 1

Without(q, k) == SubSeq(q, 1, k - 1) \o SubSeq(q, k + 1, Len(q))

Taken == queue[NextReady(queue)]

\* listener::on_accept is executed.
worker_runs_listener(w) ==
    /\ Active(w)
    /\ queue # <<>>
    /\ Taken = LCb
    /\ LET h == listener_on_accept(laccept.ec, session, <<>>)
       IN  /\ session' = h.session
           /\ log' = h.log
           /\ laccept' = h.laccept
    /\ last' = [cb |-> LCb, op |-> "accept", ec |-> laccept.ec]
    /\ queue' = Without(queue, NextReady(queue))
    /\ UNCHANGED <<running, mainVars, listenerVars>>

\* The same, were a session that ends with an error to stop the io_context's
\* other work with it (the accept and the other sessions' operations).
worker_runs_session_stops_all(w) ==
    /\ Active(w)
    /\ queue # <<>>
    /\ Taken # LCb
    /\ LET s == Taken.slot
           h == Handler(session[s], <<>>)
           ends == Release(h.s) = NoSession /\ session[s].ec = "err"
       IN  /\ session' = IF ends THEN [t \in Slots |-> NoSession]
                         ELSE [session EXCEPT ![s] = Release(h.s)]
           /\ log' = h.log
           /\ last' = [cb |-> SCb(s), op |-> session[s].op, ec |-> session[s].ec]
           /\ queue' = IF ends THEN <<>> ELSE Without(queue, NextReady(queue))
           /\ laccept' = IF ends THEN [phase |-> "idle", ec |-> "ok"] ELSE laccept
    /\ UNCHANGED <<running, mainVars, listenerVars>>

\* The handler of a session (on_accept, on_read or on_write) is executed;
\* when it returns, its reference to the session is dropped.
worker_runs_session(w) ==
    /\ Active(w)
    /\ queue # <<>>
    /\ Taken # LCb
    /\ LET s == Taken.slot
           h == Handler(session[s], <<>>)
       IN  /\ session' = [session EXCEPT ![s] = Release(h.s)]
           /\ log' = h.log
           /\ last' = [cb |-> SCb(s), op |-> session[s].op, ec |-> session[s].ec]
    /\ queue' = Without(queue, NextReady(queue))
    /\ UNCHANGED <<running, mainVars, listenerVars, laccept>>

WorkerNext ==
    \/ \E w \in Workers : worker_runs_listener(w)
    \/ \E w \in Workers : worker_runs_session(w)

Next == MainNext \/ EnvNext \/ WorkerNext

Spec == Init /\ [][Next]_vars

\* main alone: the words of argv[3] explored in full
MainSpec == InitMain /\ [][MainNext]_vars

\* One worker thread (argv[3] = "1": the loop of lines 201-202 has no turn)
\* that is scheduled fairly: the main thread goes on until it is inside
\* ioc.run(), and ioc.run() goes on executing ready handlers.  Nothing is
\* assumed of the environment: an operation may stay in flight for ever.
InitOne == InitWith({ <<"1">> })

NextOne ==
    \/ main_usage
    \/ main_args
    \/ main_make_listener
    \/ listener_run
    \/ main_reserve
    \/ main_run
    \/ EnvNext
    \/ WorkerNext

FairSpec ==
    InitOne /\ [][NextOne]_vars /\ WF_vars(MainNext) /\ WF_vars(WorkerNext)

----------------------------------------------------------------------------
(* The threads in detail: a handler takes time, and while one thread is in  *)
(* the middle of a handler the operations in flight may finish and the      *)
(* other threads execute the handlers that are ready.  `running` tells what *)
(* each thread is in the middle of.                                         *)

\* The listener's handler, inside session::run() of the session in slot s
\* which it has just created (line 170).
RCb(s) == [who |-> "listener", slot |-> s]

\* The session whose member function thread w is executing, 0 for none.
InSession(w) == running[w].slot

\* The strand of a session (line 161, net::make_strand(_ioc), the executor
\* of the session's socket): a handler that goes through it is not started
\* while another handler that went through it is still executing.  The
\* listener's handler is bound to the acceptor, whose executor is the
\* io_context itself (line 122): it does not go through any strand.
StrandFree(s) == \A u \in Workers : running[u] # SCb(s)

\* listener::on_accept as it would start with admission control: a
\* connection accepted while a session is alive is dropped.
worker_enters_listener_admits_one(w) ==
    /\ Active(w)
    /\ running[w] = Idle
    /\ queue # <<>>
    /\ Taken = LCb
    /\ IF laccept.ec # "ok" \/ FreeSlots # Slots
       THEN /\ log' = IF laccept.ec # "ok" THEN fail(<<>>, laccept.ec, "accept")
                      ELSE <<>>
            /\ running' = [running EXCEPT ![w] = LCb]
            /\ UNCHANGED session
       ELSE /\ log' = <<>>
            /\ running' = [running EXCEPT ![w] = RCb(NewSlot)]
            /\ session' = [session EXCEPT ![NewSlot] = session_run(make_session)]
    /\ last' = [cb |-> LCb, op |-> "accept", ec |-> laccept.ec]
    /\ queue' = Without(queue, NextReady(queue))
    /\ UNCHANGED <<mainVars, listenerVars, laccept>>

\* A thread starts listener::on_accept: lines 166-170, up to and including
\* the _ws.async_accept(...) of session::run() (lines 53-65).  The thread is
\* then still inside run(), with the temporary owner of line 170 alive.
worker_enters_listener(w) ==
    /\ Active(w)
    /\ running[w] = Idle
    /\ queue # <<>>
    /\ Taken = LCb
    /\ IF laccept.ec # "ok"
       THEN /\ log' = fail(<<>>, laccept.ec, "accept")
            /\ running' = [running EXCEPT ![w] = LCb]
            /\ UNCHANGED session
       ELSE /\ log' = <<>>
            /\ running' = [running EXCEPT ![w] = RCb(NewSlot)]
            /\ session' = [session EXCEPT ![NewSlot] = session_run(make_session)]
    /\ last' = [cb |-> LCb, op |-> "accept", ec |-> laccept.ec]
    /\ queue' = Without(queue, NextReady(queue))
    /\ UNCHANGED <<mainVars, listenerVars, laccept>>

\* The thread returns from run() (line 66), the temporary owner of line 170
\* goes, and do_accept() issues the next accept (line 174).
worker_leaves_listener(w) ==
    /\ running[w].who = "listener"
    /\ session' = IF InSession(w) = 0 THEN session
                  ELSE [session EXCEPT ![InSession(w)] = Release(@)]
    /\ laccept' = do_accept
    /\ running' = [running EXCEPT ![w] = Idle]
    /\ Quiet
    /\ UNCHANGED <<mainVars, listenerVars, queue>>

\* A thread starts the handler of a session, through the session's strand.
worker_enters_session(w) ==
    /\ Active(w)
    /\ running[w] = Idle
    /\ queue # <<>>
    /\ Taken # LCb
    /\ StrandFree(Taken.slot)
    /\ running' = [running EXCEPT ![w] = Taken]
    /\ queue' = Without(queue, NextReady(queue))
    /\ Quiet
    /\ UNCHANGED <<mainVars, listenerVars, laccept, session>>

\* A handler has returned: the operation it was bound to is over, unless the
\* handler has issued the next one.
Returned(r) ==
    IF r.phase = "ready" THEN [r EXCEPT !.op = "none", !.phase = "idle"] ELSE r

\* The thread executes the handler (on_accept, on_read or on_write) to its
\* end and returns from it; the handler's reference to the session goes.
worker_leaves_session(w) ==
    /\ running[w].who = "session"
    /\ LET s == InSession(w)
           h == Handler(session[s], <<>>)
       IN  /\ session' = [session EXCEPT ![s] = Release(Returned(h.s))]
           /\ log' = h.log
           /\ last' = [cb |-> SCb(s), op |-> session[s].op, ec |-> session[s].ec]
    /\ running' = [running EXCEPT ![w] = Idle]
    /\ UNCHANGED <<mainVars, listenerVars, laccept, queue>>

ThreadNext ==
    \/ \E w \in Workers : worker_enters_listener(w)
    \/ \E w \in Workers : worker_leaves_listener(w)
    \/ \E w \in Workers : worker_enters_session(w)
    \/ \E w \in Workers : worker_leaves_session(w)

StrandNext == MainNext \/ EnvNext \/ ThreadNext

\* The program with threads whose handlers take time.
StrandSpec == Init /\ [][StrandNext]_vars

----------------------------------------------------------------------------
(* The claims.                                                              *)

Entry(what) == [what |-> what, ec |-> "err"]

\* The step just taken executed the handler of session s for operation o,
\* which had finished with e.
Handled(s, o, e) == last = [cb |-> SCb(s), op |-> o, ec |-> e]

\* The listener's constructor has run and gave up on a setup step.
SetupFailed == attempted # <<>> /\ acceptor # "listening"

\* C1: when a session's read has finished with a failure other than
\* "connection closed", the handler writes one "read" line and the session
\* is closed: it issues neither a write nor a read.
C1_ReadFailureCloses ==
    \A s \in Slots :
        Handled(s, "read", "err") =>
            /\ session[s] = NoSession
            /\ log = <<Entry("read")>>

\* C2: when a setup step of the listener has failed, no accept is ever
\* issued, main does not go on to the event loop, and what main returns is
\* a failure status.
C2_SetupFailureStops ==
    SetupFailed =>
        /\ laccept.phase = "idle"
        /\ pc \in {"listener_run", "done"}
        /\ pc = "done" => exit = "EXIT_FAILURE"

\* C3: when a session's read has finished successfully with message M (bytes
\* and type), the write its handler issues carries exactly the bytes of M
\* and the type of M.
C3_EchoSameBytesAndType ==
    \A s \in Slots :
        Handled(s, "read", "ok") =>
            /\ session[s].rd \in Messages
            /\ session[s].op = "write"
            /\ session[s].phase = "pending"
            /\ session[s].wr = session[s].rd

C3_Witness ==
    \E s \in Slots :
        /\ Handled(s, "read", "ok")
        /\ session[s].wr = [data |-> <<>>, text |-> FALSE]
        /\ session[s].buffer = <<>>

\* C4: the writes a session issues are the echoes of the messages delivered
\* to it, in order: every write is the echo of the oldest message not yet
\* echoed, and no read is in flight while a message is still to be echoed.
C4_EchoesInOrder ==
    \A s \in Slots :
        /\ ~session[s].stray
        /\ Len(session[s].owed) <= 1
        /\ Pending(s, "read") => session[s].owed = <<>>

\* C5: a live session has issued exactly one handshake; a read or a write is
\* in progress only on a session whose handshake finished without error; and
\* the handler of a failed handshake writes one "accept" line and closes the
\* session without issuing anything.
C5_HandshakeFirst ==
    \A s \in Slots :
        /\ session[s].refs > 0 => session[s].hs = 1
        /\ session[s].op \in {"read", "write"} => session[s].upgraded
        /\ Handled(s, "handshake", "err") =>
              /\ session[s] = NoSession
              /\ log = <<Entry("accept")>>

C5_Witness ==
    \E s \in Slots, t \in Slots :
        /\ Handled(s, "handshake", "err")
        /\ Pending(t, "read")

\* C6: when a session's read has finished with "connection closed", the
\* handler writes nothing and the session is closed: no write, no read.
C6_CloseIsSilent ==
    \A s \in Slots :
        Handled(s, "read", "closed") =>
            /\ session[s] = NoSession
            /\ log = <<>>

C6_Witness == \E s \in Slots : Handled(s, "read", "closed")

Count(q, c) == Len(SelectSeq(q, LAMBDA x : x = c))

\* C7: from listener::run() on, the listener has exactly one accept in
\* progress (in flight, or finished with its handler queued exactly once),
\* and every execution of its handler leaves a new accept in flight.
C7_OneAcceptOutstanding ==
    pc \in {"reserve", "spawn", "run"} =>
        /\ laccept.phase \in {"pending", "ready"}
        /\ Count(queue, LCb) = (IF laccept.phase = "ready" THEN 1 ELSE 0)
        /\ last.cb = LCb => laccept.phase = "pending"

C7_Witness ==
    /\ last = [cb |-> LCb, op |-> "accept", ec |-> "err"]
    /\ log = <<Entry("accept")>>
    /\ laccept.phase = "pending"
    /\ acceptor = "listening"

\* C8: a step that executes a session's handler for an operation that
\* finished with a failure or with "connection closed" leaves every other
\* session, the other queued handlers and the listener's accept as they were.
C8_FailureIsLocal ==
    [][\A s \in Slots :
          (last'.cb = SCb(s) /\ last'.ec # "ok") =>
              /\ \A t \in Slots \ {s} : session'[t] = session[t]
              /\ laccept' = laccept
              /\ queue' = SelectSeq(queue, LAMBDA c : c # SCb(s))]_vars

C8_Witness ==
    \E s \in Slots, t \in Slots :
        /\ s # t
        /\ last.cb = SCb(s)
        /\ last.ec = "err"
        /\ session[s] = NoSession
        /\ session[t].op = "write"
        /\ session[t].phase = "ready"
        /\ laccept.phase = "pending"

\* C9: with one worker thread, scheduled fairly, every session whose
\* handler is ready has it executed, whatever completions the environment
\* produces for the other sessions and the listener; and so has the listener.
C9_NoStarvation ==
    /\ \A s \in Slots :
          (session[s].phase = "ready") ~> (session[s].phase # "ready")
    /\ (laccept.phase = "ready") ~> (laccept.phase # "ready")

\* the handler of s has just run while those of the listener and of another
\* session wait in the queue
C9_Witness ==
    \E s \in Slots, t \in Slots :
        /\ threads = 1
        /\ s # t
        /\ last.cb = SCb(s)
        /\ session[s].phase = "pending"
        /\ session[t].phase = "ready"
        /\ laccept.phase = "ready"

\* What each word of Args asks for: a number of threads (atoi reads the
\* leading digits), zero, a negative number, or nothing that is a number.
Requested(a) ==
    CASE a = <<"0">> -> 0
      [] a = <<"-", "1">> -> 0 - 1
      [] a = <<"x">> -> 0
      [] a = <<"1">> -> 1
      [] a = <<"2">> -> 2
      [] a = <<" ", "+", "3">> -> 3
      [] a = <<"1", "2">> -> 12
      [] a = <<"2", "x">> -> 2

\* the threads inside ioc.run(): those of v, and the main thread
LoopThreads == v + (IF pc = "run" THEN 1 ELSE 0)

\* C10: the threads that run the event loop are max(1, requested) in number
\* once main has called ioc.run() (requested - 1 of them spawned), and never
\* more than that before.
C10_WorkerCount ==
    argc = 4 =>
        LET n == IF Requested(arg) >= 1 THEN Requested(arg) ELSE 1
        IN  /\ LoopThreads <= n
            /\ pc = "run" => LoopThreads = n /\ v = n - 1

C10_Witness == pc = "run" /\ arg = <<"-", "1">> /\ LoopThreads = 1

\* The operation a session's handler issues after operation o has finished.
StepAfter(o) ==
    CASE o = "handshake" -> "read" [] o = "read" -> "write" [] o = "write" -> "read"

\* C11: a session never has more than one operation outstanding (each
\* outstanding operation's handler owns the session once, so the owners
\* count them); an operation in flight is not replaced or joined by
\* another; and an operation is issued only by the step that executes the
\* handler of the session's previous operation, in the order handshake,
\* read, write, read, ... (the handshake by the step that executes the
\* listener's handler for the accepted connection).
C11_OneOperationAtATime ==
    [][\A s \in Slots :
          /\ session'[s].refs <= 1
          /\ session'[s].refs = 1 <=> session'[s].phase \in {"pending", "ready"}
          /\ session[s].phase = "pending" /\ session'[s].phase = "pending" =>
                session'[s].op = session[s].op /\ session'[s].hs = session[s].hs
          /\ session[s].phase # "pending" /\ session'[s].phase = "pending" =>
                \/ /\ session[s].phase = "ready"
                   /\ last' = [cb |-> SCb(s), op |-> session[s].op,
                               ec |-> session[s].ec]
                   /\ session'[s].op = StepAfter(session[s].op)
                \/ /\ session[s] = NoSession
                   /\ last' = [cb |-> LCb, op |-> "accept", ec |-> "ok"]
                   /\ session'[s].op = "handshake"]_vars

\* the handler of a finished write has issued the next read, while another
\* session has its write in flight
C11_Witness ==
    \E s \in Slots, t \in Slots :
        /\ Handled(s, "write", "ok")
        /\ Pending(s, "read")
        /\ session[s].refs = 1
        /\ Pending(t, "write")


\* C12: no two threads are at the same time inside member functions of the
\* same session (run, on_accept, on_read, on_write), run() as called from
\* the listener's handler included.
C12_SessionOnOneThread ==
    \A w \in Workers, u \in Workers :
        (w # u /\ InSession(w) # 0) => InSession(u) # InSession(w)

\* What holds a session: the handler bound to its outstanding operation (in
\* flight, or finished and not yet returned from), and every thread that is
\* inside run() with the temporary owner of line 170.
Holders(s) ==
    (IF session[s].phase \in {"pending", "ready"} THEN 1 ELSE 0)
        + Cardinality({w \in Workers : running[w] = RCb(s)})

\* C13: a session is alive while one of its operations is in flight, while
\* a handler of it is queued and while a thread is inside one of its member
\* functions, so a completion always finds it; its owners are exactly the
\* handler of its outstanding operation and the caller of run(), so it is
\* destroyed as soon as a handler has returned without issuing an operation
\* and nobody is inside it; and it is destroyed once, by the return of the
\* last thread inside it, a destroyed session having neither operation nor
\* handler left.
C13_AliveUntilLastHandlerReturns ==
    /\ [](\A s \in Slots :
            /\ session[s].refs = Holders(s)
            /\ session[s].refs = 0 => session[s] = NoSession
            /\ Count(queue, SCb(s)) > 0 => session[s].phase = "ready"
            /\ \A w \in Workers :
                  /\ InSession(w) = s => session[s].refs >= 1
                  /\ running[w] = SCb(s) => session[s].phase = "ready")
    /\ [][\A s \in Slots :
            (session[s].refs > 0 /\ session'[s].refs = 0) =>
                /\ \E w \in Workers : InSession(w) = s /\ running'[w] = Idle
                /\ \A w \in Workers : running'[w].slot # s
                /\ session[s].phase # "pending"
                /\ Count(queue', SCb(s)) = 0]_vars

\* the handler of a failed write has returned and the session is gone, while
\* a thread is in a handler of another session
C13_Witness ==
    \E s \in Slots, t \in Slots, w \in Workers :
        /\ Handled(s, "write", "err")
        /\ session[s] = NoSession
        /\ running[w] = SCb(t)
        /\ session[t].refs = 1

\* the sessions alive
Live == {s \in Slots : session[s].refs > 0}

\* C14: the step that starts the listener's handler for an accept that
\* succeeded creates one session and starts it (its handshake is in flight),
\* leaves the other sessions alone and makes the live sessions one more,
\* however many are alive, all this before the next accept is issued; for
\* an accept that failed it creates nothing; the next accept is issued when
\* the handler ends; and nothing else creates a session.
C14_OneSessionPerAccept ==
    [][/\ (last'.cb = LCb /\ last'.ec = "ok") =>
            /\ \E s \in Slots :
                  /\ session[s].refs = 0
                  /\ session'[s].refs > 0
                  /\ session'[s].op = "handshake"
                  /\ session'[s].phase = "pending"
                  /\ session'[s].hs = 1
                  /\ \A t \in Slots \ {s} : session'[t] = session[t]
            /\ Cardinality(Live') = Cardinality(Live) + 1
            /\ laccept.phase = "ready" /\ laccept' = laccept
       /\ (last'.cb = LCb /\ last'.ec # "ok") =>
            /\ session' = session
            /\ laccept.phase = "ready" /\ laccept' = laccept
       /\ (laccept.phase = "ready" /\ laccept'.phase = "pending") =>
            \E w \in Workers :
                /\ running[w].who = "listener"
                /\ running'[w] = Idle
                /\ laccept.ec = "ok" <=> InSession(w) # 0
       /\ \A s \in Slots :
            (session[s].refs = 0 /\ session'[s].refs > 0) =>
                last' = [cb |-> LCb, op |-> "accept", ec |-> "ok"]]_vars

\* the listener's handler has just created a session while every other slot
\* held a live session: as many live sessions as the model has room for
C14_Witness ==
    /\ last = [cb |-> LCb, op |-> "accept", ec |-> "ok"]
    /\ Live = Slots
    /\ \E w \in Workers : running[w].who = "listener" /\ InSession(w) # 0
    /\ laccept.phase = "ready"

\* C15: when a session's write has finished with a failure, its handler
\* writes one "write" line and the session is closed: no read and no write
\* is issued (the write is not retried), and the session is destroyed, its
\* buffer with it.
C15_WriteFailureCloses ==
    \A s \in Slots :
        Handled(s, "write", "err") =>
            /\ log = <<Entry("write")>>
            /\ session[s].phase # "pending"
            /\ session[s].buffer = <<>>
            /\ session[s] = NoSession
            /\ Count(queue, SCb(s)) = 0

\* the write of a text message has failed and its session is gone, while
\* another session waits for a message
C15_Witness ==
    \E s \in Slots, t \in Slots :
        /\ Handled(s, "write", "err")
        /\ session[s] = NoSession
        /\ Pending(t, "read")

\* The label the code gives each operation when it reports its failure: the
\* WebSocket handshake is _ws.async_accept, reported as "accept" (line 70)
\* like the listener's accept (line 167).
Label(o) ==
    CASE o = "accept" -> "accept" [] o = "handshake" -> "accept"
      [] o = "read" -> "read" [] o = "write" -> "write"

Operations == {"accept", "handshake", "read", "write"}

\* C16: the step that handles the completion of an accept, a handshake, a
\* read or a write writes exactly one line, labelled with the operation,
\* when the operation failed with anything but "connection closed", and
\* writes nothing when it succeeded or was a read that ended with
\* "connection closed".
C16_OneLinePerFailure ==
    last.op \in Operations =>
        /\ last.ec = "err" => log = <<Entry(Label(last.op))>>
        /\ last.ec \in {"ok", "closed"} => log = <<>>
        /\ last.ec \in {"ok", "closed", "err"}
        /\ last.ec = "closed" => last.op = "read"

\* a failed read has been reported with one "read" line (and the session has
\* gone on to a write, which will be reported on its own if it fails)
C16_Witness ==
    \E s \in Slots :
        /\ Handled(s, "read", "err")
        /\ log = <<Entry("read")>>
        /\ Pending(s, "write")

\* C17: the buffer of a session is empty whenever a read is in flight (it
\* was empty when the read was issued, and only the read's completion fills
\* it); the handler of a successful write leaves it empty and the next read
\* in flight; so when a read has delivered a message the buffer holds the
\* bytes of that message alone, and they are the payload of the write that
\* echoes it.
C17_BufferEmptyAtRead ==
    \A s \in Slots :
        /\ Pending(s, "read") => session[s].buffer = <<>>
        /\ Handled(s, "write", "ok") =>
              Pending(s, "read") /\ session[s].buffer = <<>>
        /\ (session[s].op = "read" /\ session[s].phase = "ready"
                /\ session[s].ec = "ok") =>
              session[s].rd \in Messages /\ session[s].buffer = session[s].rd.data
        /\ Handled(s, "read", "ok") =>
              /\ Pending(s, "write")
              /\ session[s].wr.data = session[s].rd.data
              /\ session[s].buffer = session[s].rd.data

\* a message of one byte has been echoed: its write has succeeded, the
\* buffer is empty again and the next read is in flight
C17_Witness ==
    \E s \in Slots :
        /\ Handled(s, "write", "ok")
        /\ session[s].rd.data = <<1>>
        /\ session[s].buffer = <<>>
        /\ Pending(s, "read")

\* C18: the listener's constructor attempts open, set_option, bind, listen
\* in this order; every step before the last one attempted has succeeded
\* (nothing is attempted after a failure); if the last one attempted has
\* failed, the constructor has written exactly one line, labelled with that
\* step, and the acceptor is as the steps before it left it; otherwise all
\* four steps have been attempted, nothing has been written and the
\* acceptor listens.
C18_SetupStopsAtFirstFailure ==
    LET n == Len(attempted)
    IN  /\ n <= Len(SetupSteps)
        /\ \A k \in 1..n : attempted[k].step = SetupSteps[k]
        /\ \A k \in 1..(n - 1) : attempted[k].ec = "ok"
        /\ pc = "listener_run" =>
              /\ n >= 1
              /\ IF attempted[n].ec # "ok"
                 THEN /\ log = <<Entry(attempted[n].step)>>
                      /\ acceptor = (CASE n = 1 -> "closed"
                                       [] n \in {2, 3} -> "open"
                                       [] n = 4 -> "bound")
                 ELSE /\ n = Len(SetupSteps)
                      /\ log = <<>>
                      /\ acceptor = "listening"

\* bind has failed: open and set_option had succeeded, listen has not been
\* attempted, and the one line written is labelled "bind"
C18_Witness ==
    /\ pc = "listener_run"
    /\ attempted = <<[step |-> "open", ec |-> "ok"],
                     [step |-> "set_option", ec |-> "ok"],
                     [step |-> "bind", ec |-> "err"]>>
    /\ log = <<Entry("bind")>>
    /\ acceptor = "open"

====
